---- MODULE Spec2Model ----
(***************************************************************************)
(* Booking lifecycle of the home-service marketplace: the route handlers   *)
(* for bookings (create, status update, cancel), reviews (create and       *)
(* rating recompute) and the admin booking operations (update, delete).    *)
(* Every `await prisma...` of a handler is one atomic store step; the      *)
(* steps of different requests interleave freely.                          *)
(***************************************************************************)
EXTENDS Integers, Sequences, FiniteSets, Bags, TLC

(* ------------------------------ bounds --------------------------------- *)
\* number of booking ids that can ever be allocated
MaxBookings == 2
\* number of requests that can be in flight at the same time
MaxReq == 2
\* number of distinct timestamps a booking can be requested for
MaxDate == 2

(* --------------------------- fixed universe ---------------------------- *)
Users == {"c1", "c2", "p1", "p2", "a1"}

\* the caller of a request that carries no valid token
Anonymous == "anon"

\* account role carried by the authenticated principal
Role(u) ==
    CASE u \in {"c1", "c2"} -> "user"
      [] u \in {"p1", "p2"} -> "provider"
      [] u = Anonymous -> "none"
      [] OTHER -> "admin"

ServiceIds == {"s1", "s2"}
\* service ids a client can name: the catalogue and one id that is in no row
ServiceInputs == ServiceIds \cup {"s9"}
Owner(s) == IF s = "s1" THEN "p1" ELSE "p2"
Price(s) == IF s = "s1" THEN 50 ELSE 30

Dates == 1..MaxDate
BookingIds == 1..MaxBookings

Statuses == {"pending", "confirmed", "in_progress", "completed", "cancelled"}
ActiveStatuses == {"pending", "confirmed", "in_progress"}
TerminalStatuses == {"completed", "cancelled"}

\* Ratings are kept in tenths throughout: 40 is the rating 4, 45 is 4.5.
\* ratings a client submits in the model
RatingInputs == {40, 50}

\* ratings that are no integer in [1,5]: zero (also standing for a missing
\* rating), negative, too large, fractional
InvalidRatings == {0, -10, 60, 45}

\* ratings of a request body, valid or not
RatingBodies == RatingInputs \cup InvalidRatings

\* prices a provider sets on a service
PriceInputs == {30, 50}

\* instants read by `new Date()` in an update; bookings are created at
\* instant 0
Instants == {1}

PaymentStatuses == {"pending", "paid", "refunded"}

NoBooking == [status |-> "none"]
NoService == [id |-> "none"]
NoResp == [code |-> 0, error |-> ""]
NoLoc == [none |-> TRUE]
NoLast == [op |-> "none", user |-> "", resp |-> NoResp]

VARIABLES
    services,   \* service id -> service row
    bookings,   \* booking id -> booking row or NoBooking
    reviews,    \* sequence of review rows, in insertion order
    nextId,     \* next booking id to allocate
    req,        \* bag of the handler invocations suspended at a store call
    last        \* the response most recently returned to a caller

vars == <<services, bookings, reviews, nextId, req, last>>

(* ------------------------------ responses ------------------------------ *)
Resp(c, e) == [code |-> c, error |-> e]

InternalError == Resp(500, "Internal server error")
Created == Resp(201, "")
Ok == Resp(200, "")
ServiceNotFound == Resp(404, "Service not found or unavailable")
OwnService == Resp(400, "Cannot book your own service")
SlotUnavailable == Resp(400, "Service is not available at this time")
BookingNotFound == Resp(404, "Booking not found")
Forbidden == Resp(403, "Unauthorized")
InvalidTransition == Resp(400, "Invalid status transition")
CannotCancel == Resp(400, "Cannot cancel completed or already cancelled booking")
RatingRequired == Resp(400, "Booking ID and rating are required")
RatingOutOfRange == Resp(400, "Rating must be between 1 and 5")
NotCompleted == Resp(400, "Can only review completed bookings")
ReviewExists == Resp(400, "Review already exists for this booking")
AdminOnly == Resp(401, "Unauthorized")
InvalidStatus == Resp(400, "Invalid status")
HasReview == Resp(400, "Cannot delete booking with existing review")

\* the server takes a new request while fewer than MaxReq are suspended
CanStart == BagCardinality(req) < MaxReq

\* a handler returns before its first suspension
Reply(op, u, resp) ==
    /\ last' = [op |-> op, user |-> u, resp |-> resp]
    /\ UNCHANGED req

\* a handler suspends at its first store call after the one just made
Goto(op, u, arg, pc, loc) ==
    /\ req' = req (+) SetToBag({[op |-> op, pc |-> pc, user |-> u,
                                 arg |-> arg, loc |-> loc]})
    /\ UNCHANGED last

\* a suspended handler returns
Finish(q, resp) ==
    /\ last' = [op |-> q.op, user |-> q.user, resp |-> resp]
    /\ req' = req (-) SetToBag({q})

\* a suspended handler moves on to its next store call
Step(q, pc, loc) ==
    /\ req' = (req (-) SetToBag({q})) (+)
                  SetToBag({[q EXCEPT !.pc = pc, !.loc = loc]})
    /\ UNCHANGED last

AllIdle == req = EmptyBag

Suspended(op, pc) == {q \in BagToSet(req) : q.op = op /\ q.pc = pc}

(* ------------------------------ store ---------------------------------- *)
Exists(b) == bookings[b] # NoBooking

ReviewsOfBooking(b) == {i \in 1..Len(reviews) : reviews[i].bookingId = b}
ReviewsOfService(s) == {i \in 1..Len(reviews) : reviews[i].serviceId = s}

RECURSIVE SumRatings(_)
SumRatings(I) ==
    IF I = {} THEN 0
    ELSE LET i == CHOOSE x \in I : TRUE
         IN reviews[i].rating + SumRatings(I \ {i})

RoundedMean10_Whole(sum, n) == 10 * ((2 * sum + 10 * n) \div (20 * n))

\* Math.round(avg * 10) / 10 in tenths: round half up of sum/n, where sum
\* is the sum of the ratings in tenths
RoundedMean10(sum, n) == (2 * sum + n) \div (2 * n)

Init ==
    /\ services \in [ServiceIds -> [providerId : Users, price : {30, 50},
                                    isActive : BOOLEAN, rating : {0},
                                    reviewCount : {0}]]
    /\ \A s \in ServiceIds : /\ services[s].providerId = Owner(s)
                             /\ services[s].price = Price(s)
    /\ bookings = [b \in BookingIds |-> NoBooking]
    /\ reviews = <<>>
    /\ nextId = 1
    /\ req = EmptyBag
    /\ last = NoLast

(* ------------------- POST /api/bookings (create) ----------------------- *)
PendingCreates == BagCardinality([q \in Suspended("POST", "findConflict")
                                        \cup Suspended("POST", "create") |-> req[q]])

IsOwnService_Never(service, u) == FALSE

IsOwnService(service, u) == service.providerId = u

\* prisma.service.findUnique({where: {id}})
FindService(sid) == IF sid \in ServiceIds THEN services[sid] ELSE NoService

POST_FindService_OwnerFirst(u, sid, date) ==
    /\ CanStart
    /\ LET service == FindService(sid)
           arg == [serviceId |-> sid, date |-> date]
       IN IF service # NoService /\ IsOwnService(service, u)
          THEN Reply("POST", u, OwnService)
          ELSE IF service = NoService \/ ~service.isActive
          THEN Reply("POST", u, ServiceNotFound)
          ELSE /\ nextId + PendingCreates <= MaxBookings
               /\ Goto("POST", u, arg, "findConflict", [service |-> service])
    /\ UNCHANGED <<services, bookings, reviews, nextId>>

POST_FindService(u, sid, date) ==
    /\ CanStart
    /\ LET service == FindService(sid)
           arg == [serviceId |-> sid, date |-> date]
       IN IF service = NoService \/ ~service.isActive
          THEN Reply("POST", u, ServiceNotFound)
          ELSE IF IsOwnService(service, u)
          THEN Reply("POST", u, OwnService)
          ELSE /\ nextId + PendingCreates <= MaxBookings
               /\ Goto("POST", u, arg, "findConflict", [service |-> service])
    /\ UNCHANGED <<services, bookings, reviews, nextId>>

ConflictingBooking_AnyStatus(sid, date) ==
    \E b \in BookingIds : /\ Exists(b)
                          /\ bookings[b].serviceId = sid
                          /\ bookings[b].date = date

ConflictingBooking(sid, date) ==
    \E b \in BookingIds : /\ Exists(b)
                          /\ bookings[b].serviceId = sid
                          /\ bookings[b].date = date
                          /\ bookings[b].status \in ActiveStatuses

POST_FindConflict(q) ==
    /\ q \in Suspended("POST", "findConflict")
    /\ IF ConflictingBooking(q.arg.serviceId, q.arg.date)
       THEN Finish(q, SlotUnavailable)
       ELSE Step(q, "create", q.loc)
    /\ UNCHANGED <<services, bookings, reviews, nextId>>

\* columns the create data leaves to the defaults of the Booking table
CreateDefaults == [status |-> "pending", paymentStatus |-> "pending", updatedAt |-> 0]

NewBooking_CataloguePrice(u, service, sid, date) ==
    [userId |-> u, serviceId |-> sid, providerId |-> service.providerId,
     date |-> date, totalPrice |-> Price(sid), status |-> CreateDefaults.status,
     paymentStatus |-> CreateDefaults.paymentStatus,
     updatedAt |-> CreateDefaults.updatedAt]

NewBooking(u, service, sid, date) ==
    [userId |-> u, serviceId |-> sid, providerId |-> service.providerId,
     date |-> date, totalPrice |-> service.price, status |-> CreateDefaults.status,
     paymentStatus |-> CreateDefaults.paymentStatus,
     updatedAt |-> CreateDefaults.updatedAt]

POST_Create(q) ==
    /\ q \in Suspended("POST", "create")
    /\ nextId <= MaxBookings
    /\ bookings' = [bookings EXCEPT ![nextId] =
                       NewBooking(q.user, q.loc.service, q.arg.serviceId, q.arg.date)]
    /\ nextId' = nextId + 1
    /\ Finish(q, Created)
    /\ UNCHANGED <<services, reviews>>

(* ------------------------ GET /api/bookings (list) --------------------- *)
ListWhere_StatusOnly(u, status) ==
    {b \in BookingIds : Exists(b) /\ (status # "" => bookings[b].status = status)}

\* the role's `where`, narrowed by the status of the query when it has one
ListWhere(u, status) ==
    {b \in BookingIds :
        /\ Exists(b)
        /\ Role(u) = "user" => bookings[b].userId = u
        /\ Role(u) = "provider" => bookings[b].providerId = u
        /\ status # "" => bookings[b].status = status}

\* the answer names the bookings found
Listed(ids) == [code |-> 200, error |-> "", ids |-> ids]

\* booking.findMany, the first page holding every booking; the
\* booking.count that follows only feeds the pagination of the answer
LIST(u, status) ==
    /\ CanStart
    /\ Reply("LIST", u, Listed(ListWhere(u, status)))
    /\ UNCHANGED <<services, bookings, reviews, nextId>>

(* --------------------- GET /api/bookings/[id] (details) ---------------- *)
\* the answer carries the booking read and the canReview flag
Details(id, status, canReview) ==
    [code |-> 200, error |-> "", id |-> id, status |-> status, canReview |-> canReview]

DETAILS_Find(u, id) ==
    /\ CanStart
    /\ LET booking == bookings[id]
           arg == [id |-> id]
           isCustomer == booking.userId = u
           isProvider == booking.providerId = u
           isAdmin == Role(u) = "admin"
       IN IF ~Exists(id)
          THEN Reply("DETAILS", u, BookingNotFound)
          ELSE IF ~isCustomer /\ ~isProvider /\ ~isAdmin
          THEN Reply("DETAILS", u, Forbidden)
          ELSE Goto("DETAILS", u, arg, "findReview", [status |-> booking.status])
    /\ UNCHANGED <<services, bookings, reviews, nextId>>

\* review.findFirst({where: {bookingId: id, userId: user.userId}})
DETAILS_FindReview(q) ==
    /\ q \in Suspended("DETAILS", "findReview")
    /\ LET review == \E i \in ReviewsOfBooking(q.arg.id) : reviews[i].userId = q.user
       IN Finish(q, Details(q.arg.id, q.loc.status,
                            q.loc.status = "completed" /\ ~review))
    /\ UNCHANGED <<services, bookings, reviews, nextId>>

(* ---------------- PUT /api/bookings/[id] (status update) --------------- *)
allowedStatuses_UserMayConfirm(role) ==
    CASE role = "user" -> {"cancelled", "confirmed"}
      [] role = "provider" -> {"confirmed", "in_progress", "completed", "cancelled"}
      [] role = "admin" -> {"pending", "confirmed", "in_progress", "completed", "cancelled"}
      [] OTHER -> {}

allowedStatuses(role) ==
    CASE role = "user" -> {"cancelled"}
      [] role = "provider" -> {"confirmed", "in_progress", "completed", "cancelled"}
      [] role = "admin" -> {"pending", "confirmed", "in_progress", "completed", "cancelled"}
      [] OTHER -> {}

PutUnauthorized_UserOnly(u, booking) ==
    Role(u) = "user" /\ booking.userId # u

\* the two authorization checks of the status update
PutUnauthorized(u, booking) ==
    \/ Role(u) = "user" /\ booking.userId # u
    \/ Role(u) = "provider" /\ booking.providerId # u

PUT_Find_TouchesRejected(u, id, status) ==
    /\ CanStart
    /\ LET booking == bookings[id]
           arg == [id |-> id, status |-> status]
       IN IF ~Exists(id)
          THEN Reply("PUT", u, BookingNotFound) /\ UNCHANGED bookings
          ELSE IF PutUnauthorized(u, booking)
          THEN Reply("PUT", u, Forbidden) /\ UNCHANGED bookings
          ELSE IF status \notin allowedStatuses(Role(u))
          THEN /\ Reply("PUT", u, InvalidTransition)
               /\ bookings' = [bookings EXCEPT ![id].updatedAt = 1]
          ELSE Goto("PUT", u, arg, "update", NoLoc) /\ UNCHANGED bookings
    /\ UNCHANGED <<services, reviews, nextId>>

PUT_Find_AdjacentOnly(u, id, status) ==
    /\ CanStart
    /\ LET booking == bookings[id]
           arg == [id |-> id, status |-> status]
           adjacent == {<<"pending", "confirmed">>, <<"confirmed", "in_progress">>,
                        <<"in_progress", "completed">>, <<"pending", "cancelled">>,
                        <<"confirmed", "cancelled">>, <<"in_progress", "cancelled">>}
       IN IF ~Exists(id)
          THEN Reply("PUT", u, BookingNotFound)
          ELSE IF PutUnauthorized(u, booking)
          THEN Reply("PUT", u, Forbidden)
          ELSE IF status \notin allowedStatuses(Role(u))
                  \/ <<booking.status, status>> \notin adjacent
          THEN Reply("PUT", u, InvalidTransition)
          ELSE Goto("PUT", u, arg, "update", NoLoc)
    /\ UNCHANGED <<services, bookings, reviews, nextId>>

PUT_Find(u, id, status) ==
    /\ CanStart
    /\ LET booking == bookings[id]
           arg == [id |-> id, status |-> status]
       IN IF ~Exists(id)
          THEN Reply("PUT", u, BookingNotFound)
          ELSE IF PutUnauthorized(u, booking)
          THEN Reply("PUT", u, Forbidden)
          ELSE IF status # "" /\ status \notin allowedStatuses(Role(u))
          THEN Reply("PUT", u, InvalidTransition)
          ELSE Goto("PUT", u, arg, "update", NoLoc)
    /\ UNCHANGED <<services, bookings, reviews, nextId>>

\* prisma.booking.update throws when the row is gone; the catch answers 500.
\* The row's free-text notes, which the body may replace, are not modelled.
PUT_Update(q) ==
    /\ q \in Suspended("PUT", "update")
    /\ IF ~Exists(q.arg.id)
       THEN /\ Finish(q, InternalError)
            /\ UNCHANGED bookings
       ELSE /\ bookings' = [bookings EXCEPT ![q.arg.id].status =
                                IF q.arg.status # "" THEN q.arg.status ELSE @]
            /\ Finish(q, Ok)
    /\ UNCHANGED <<services, reviews, nextId>>

(* ------------------ DELETE /api/bookings/[id] (cancel) ----------------- *)
CancelUnauthorized_ByRole(u, booking) ==
    \/ Role(u) = "user" /\ booking.userId # u
    \/ Role(u) = "provider" /\ booking.providerId # u

CancelUnauthorized(u, booking) ==
    booking.userId # u /\ booking.providerId # u /\ Role(u) # "admin"

CANCEL_Find(u, id) ==
    /\ CanStart
    /\ LET booking == bookings[id]
           arg == [id |-> id]
       IN IF ~Exists(id)
          THEN Reply("CANCEL", u, BookingNotFound)
          ELSE IF booking.status = "completed" \/ booking.status = "cancelled"
          THEN Reply("CANCEL", u, CannotCancel)
          ELSE IF CancelUnauthorized(u, booking)
          THEN Reply("CANCEL", u, Forbidden)
          ELSE Goto("CANCEL", u, arg, "update", NoLoc)
    /\ UNCHANGED <<services, bookings, reviews, nextId>>

CANCEL_Update(q) ==
    /\ q \in Suspended("CANCEL", "update")
    /\ IF ~Exists(q.arg.id)
       THEN /\ Finish(q, InternalError)
            /\ UNCHANGED bookings
       ELSE /\ bookings' = [bookings EXCEPT ![q.arg.id].status = "cancelled"]
            /\ Finish(q, Ok)
    /\ UNCHANGED <<services, reviews, nextId>>

(* --------------------- POST /api/reviews (create) ---------------------- *)
REVIEW_FindBooking_AnyStatus(u, id, rating) ==
    /\ CanStart
    /\ LET booking == bookings[id]
           arg == [id |-> id, rating |-> rating]
       IN IF rating = 0
          THEN Reply("REVIEW", u, RatingRequired)
          ELSE IF rating < 10 \/ rating > 50
          THEN Reply("REVIEW", u, RatingOutOfRange)
          ELSE IF ~Exists(id)
          THEN Reply("REVIEW", u, BookingNotFound)
          ELSE IF booking.userId # u
          THEN Reply("REVIEW", u, Forbidden)
          ELSE Goto("REVIEW", u, arg, "findExisting",
                    [serviceId |-> booking.serviceId,
                     providerId |-> booking.providerId])
    /\ UNCHANGED <<services, bookings, reviews, nextId>>

REVIEW_FindBooking(u, id, rating) ==
    /\ CanStart
    /\ LET booking == bookings[id]
           arg == [id |-> id, rating |-> rating]
       IN IF rating = 0
          THEN Reply("REVIEW", u, RatingRequired)
          ELSE IF rating < 10 \/ rating > 50
          THEN Reply("REVIEW", u, RatingOutOfRange)
          ELSE IF ~Exists(id)
          THEN Reply("REVIEW", u, BookingNotFound)
          ELSE IF booking.userId # u
          THEN Reply("REVIEW", u, Forbidden)
          ELSE IF booking.status # "completed"
          THEN Reply("REVIEW", u, NotCompleted)
          ELSE Goto("REVIEW", u, arg, "findExisting",
                    [serviceId |-> booking.serviceId,
                     providerId |-> booking.providerId])
    /\ UNCHANGED <<services, bookings, reviews, nextId>>

REVIEW_FindExisting(q) ==
    /\ q \in Suspended("REVIEW", "findExisting")
    /\ IF ReviewsOfBooking(q.arg.id) # {}
       THEN Finish(q, ReviewExists)
       ELSE Step(q, "create", q.loc)
    /\ UNCHANGED <<services, bookings, reviews, nextId>>

ReviewInsertRefused_Never(id) == FALSE

\* Review.bookingId is a unique column: a second insert for it is refused
ReviewInsertRefused(id) == ReviewsOfBooking(id) # {}

NewReview(u, loc, id, rating) ==
    [userId |-> u, serviceId |-> loc.serviceId, providerId |-> loc.providerId,
     bookingId |-> id, rating |-> rating]

\* Review.rating is an integer column: a fractional rating is refused
RatingRefused(rating) == rating % 10 # 0

ReviewBookingMissing_Never(id) == FALSE

\* Review.bookingId references a booking row: an insert that names a
\* booking no longer there is refused
ReviewBookingMissing(id) == ~Exists(id)

\* prisma.review.create throws on the unique column, on a missing booking
\* and on a value the rating column does not take
REVIEW_Create(q) ==
    /\ q \in Suspended("REVIEW", "create")
    /\ IF \/ ReviewInsertRefused(q.arg.id)
          \/ ReviewBookingMissing(q.arg.id)
          \/ RatingRefused(q.arg.rating)
       THEN /\ Finish(q, InternalError)
            /\ UNCHANGED reviews
       ELSE /\ reviews' = Append(reviews, NewReview(q.user, q.loc, q.arg.id, q.arg.rating))
            /\ Step(q, "findMany", q.loc)
    /\ UNCHANGED <<services, bookings, nextId>>

\* updateServiceRating, first store call: the ratings of the service
REVIEW_FindMany(q) ==
    /\ q \in Suspended("REVIEW", "findMany")
    /\ LET I == ReviewsOfService(q.loc.serviceId)
       IN IF Cardinality(I) > 0
          THEN Step(q, "updateService",
                    [serviceId |-> q.loc.serviceId,
                     sum |-> SumRatings(I), length |-> Cardinality(I)])
          ELSE Finish(q, Created)
    /\ UNCHANGED <<services, bookings, reviews, nextId>>

\* updateServiceRating, second store call: write mean and count
REVIEW_UpdateService(q) ==
    /\ q \in Suspended("REVIEW", "updateService")
    /\ services' = [services EXCEPT
           ![q.loc.serviceId].rating = RoundedMean10(q.loc.sum, q.loc.length),
           ![q.loc.serviceId].reviewCount = q.loc.length]
    /\ Finish(q, Created)
    /\ UNCHANGED <<bookings, reviews, nextId>>

\* a store call of updateServiceRating rejects (the store is unreachable or
\* times out): the exception leaves updateServiceRating and the handler's
\* try block, and the catch answers 500
REVIEW_RecomputeFails(q) ==
    /\ q \in Suspended("REVIEW", "findMany") \cup Suspended("REVIEW", "updateService")
    /\ Finish(q, InternalError)
    /\ UNCHANGED <<services, bookings, reviews, nextId>>

(* ------------------ PATCH /api/admin/bookings (update) ----------------- *)
InvalidPaymentStatus == Resp(400, "Invalid payment status")

\* the request body's `updates` that carry a status only
StatusUpdates == {[status |-> st] : st \in Statuses}

\* `updates` of every shape the handler spreads into the row: a status, a
\* payment status or a total price, valid or not
PatchInputs ==
    StatusUpdates
        \cup {[status |-> "archived"]}
        \cup {[paymentStatus |-> p] : p \in PaymentStatuses \cup {"chargeback"}}
        \cup {[totalPrice |-> x] : x \in {99}}

\* data: {...updates, updatedAt: new Date()}
ApplyUpdates(booking, updates, now) ==
    [booking EXCEPT
        !.status = IF "status" \in DOMAIN updates THEN updates.status ELSE @,
        !.paymentStatus = IF "paymentStatus" \in DOMAIN updates
                          THEN updates.paymentStatus ELSE @,
        !.totalPrice = IF "totalPrice" \in DOMAIN updates
                       THEN updates.totalPrice ELSE @,
        !.updatedAt = now]

\* Booking.status and Booking.paymentStatus are enumerations: the store
\* refuses a row that carries another value
EnumRefused(updates) ==
    \/ "status" \in DOMAIN updates /\ updates.status \notin Statuses
    \/ "paymentStatus" \in DOMAIN updates /\ updates.paymentStatus \notin PaymentStatuses

PATCH_ProviderToo(u, id, updates, now) ==
    /\ CanStart
    /\ IF Role(u) \notin {"admin", "provider"}
       THEN /\ Reply("PATCH", u, AdminOnly)
            /\ UNCHANGED bookings
       ELSE IF /\ "status" \in DOMAIN updates
               /\ updates.status # ""
               /\ updates.status \notin Statuses
       THEN /\ Reply("PATCH", u, InvalidStatus)
            /\ UNCHANGED bookings
       ELSE IF /\ "paymentStatus" \in DOMAIN updates
               /\ updates.paymentStatus # ""
               /\ updates.paymentStatus \notin PaymentStatuses
       THEN /\ Reply("PATCH", u, InvalidPaymentStatus)
            /\ UNCHANGED bookings
       ELSE IF ~Exists(id) \/ EnumRefused(updates)
       THEN /\ Reply("PATCH", u, InternalError)
            /\ UNCHANGED bookings
       ELSE /\ bookings' = [bookings EXCEPT ![id] = ApplyUpdates(@, updates, now)]
            /\ Reply("PATCH", u, Ok)
    /\ UNCHANGED <<services, reviews, nextId>>

\* one store call (booking.update), which throws when the row is missing
\* or refused; an empty status or paymentStatus skips its validation
PATCH(u, id, updates, now) ==
    /\ CanStart
    /\ IF Role(u) # "admin"
       THEN /\ Reply("PATCH", u, AdminOnly)
            /\ UNCHANGED bookings
       ELSE IF /\ "status" \in DOMAIN updates
               /\ updates.status # ""
               /\ updates.status \notin Statuses
       THEN /\ Reply("PATCH", u, InvalidStatus)
            /\ UNCHANGED bookings
       ELSE IF /\ "paymentStatus" \in DOMAIN updates
               /\ updates.paymentStatus # ""
               /\ updates.paymentStatus \notin PaymentStatuses
       THEN /\ Reply("PATCH", u, InvalidPaymentStatus)
            /\ UNCHANGED bookings
       ELSE IF ~Exists(id) \/ EnumRefused(updates)
       THEN /\ Reply("PATCH", u, InternalError)
            /\ UNCHANGED bookings
       ELSE /\ bookings' = [bookings EXCEPT ![id] = ApplyUpdates(@, updates, now)]
            /\ Reply("PATCH", u, Ok)
    /\ UNCHANGED <<services, reviews, nextId>>

(* ----------------- DELETE /api/admin/bookings (delete) ----------------- *)
ADEL_Find_NoReviewCheck(u, id) ==
    /\ CanStart
    /\ LET arg == [id |-> id]
       IN IF Role(u) # "admin"
          THEN Reply("ADEL", u, AdminOnly)
          ELSE IF ~Exists(id)
          THEN Reply("ADEL", u, BookingNotFound)
          ELSE Goto("ADEL", u, arg, "delete", NoLoc)
    /\ UNCHANGED <<services, bookings, reviews, nextId>>

ADEL_Find(u, id) ==
    /\ CanStart
    /\ LET arg == [id |-> id]
       IN IF Role(u) # "admin"
          THEN Reply("ADEL", u, AdminOnly)
          ELSE IF ~Exists(id)
          THEN Reply("ADEL", u, BookingNotFound)
          ELSE IF ReviewsOfBooking(id) # {}
          THEN Reply("ADEL", u, HasReview)
          ELSE Goto("ADEL", u, arg, "delete", NoLoc)
    /\ UNCHANGED <<services, bookings, reviews, nextId>>

\* prisma.booking.delete throws when the row is gone.  When a review was
\* attached since the check, the foreign key of the review decides: the
\* delete is refused (and throws) or it cascades to the review.
ADEL_Delete(q) ==
    /\ q \in Suspended("ADEL", "delete")
    /\ IF ~Exists(q.arg.id)
       THEN /\ Finish(q, InternalError)
            /\ UNCHANGED <<bookings, reviews>>
       ELSE IF ReviewsOfBooking(q.arg.id) # {}
       THEN \/ /\ Finish(q, InternalError)
               /\ UNCHANGED <<bookings, reviews>>
            \/ /\ bookings' = [bookings EXCEPT ![q.arg.id] = NoBooking]
               /\ reviews' = SelectSeq(reviews, LAMBDA x : x.bookingId # q.arg.id)
               /\ Finish(q, Ok)
       ELSE /\ bookings' = [bookings EXCEPT ![q.arg.id] = NoBooking]
            /\ UNCHANGED reviews
            /\ Finish(q, Ok)
    /\ UNCHANGED <<services, nextId>>

(* ------------------ PUT /api/services/[id] (update) -------------------- *)
ServiceNotOwned == Resp(404, "Service not found or unauthorized")

\* withRole(["provider"]) admits providers only; the first store call looks
\* the service up by id and providerId
SVC_Find(u, sid, price, isActive) ==
    /\ CanStart
    /\ Role(u) = "provider"
    /\ LET service == FindService(sid)
           arg == [serviceId |-> sid, price |-> price, isActive |-> isActive]
       IN IF service = NoService \/ service.providerId # u
          THEN Reply("SVC", u, ServiceNotOwned)
          ELSE Goto("SVC", u, arg, "update", NoLoc)
    /\ UNCHANGED <<services, bookings, reviews, nextId>>

\* second store call: service.update({where: {id}, data: {price, isActive, ...}})
SVC_Update(q) ==
    /\ q \in Suspended("SVC", "update")
    /\ services' = [services EXCEPT ![q.arg.serviceId].price = q.arg.price,
                                    ![q.arg.serviceId].isActive = q.arg.isActive]
    /\ Finish(q, Ok)
    /\ UNCHANGED <<bookings, reviews, nextId>>

(* ----------------------------- next-state ------------------------------ *)
\* a handler is invoked: it runs up to its first suspension
Start ==
    \/ \E u \in Users, s \in ServiceInputs, d \in Dates : POST_FindService(u, s, d)
    \/ \E u \in Users, b \in BookingIds, st \in Statuses : PUT_Find(u, b, st)
    \/ \E u \in Users, b \in BookingIds : CANCEL_Find(u, b)
    \/ \E u \in Users, b \in BookingIds, x \in RatingBodies : REVIEW_FindBooking(u, b, x)
    \/ \E u \in Users, b \in BookingIds, up \in PatchInputs, now \in Instants :
           PATCH(u, b, up, now)
    \/ \E u \in Users, b \in BookingIds : ADEL_Find(u, b)
    \/ \E u \in Users, s \in ServiceInputs, x \in PriceInputs, a \in BOOLEAN :
           SVC_Find(u, s, x, a)

\* a suspended handler resumes with its next store call
Continue ==
    \/ \E q \in BagToSet(req) : POST_FindConflict(q)
    \/ \E q \in BagToSet(req) : POST_Create(q)
    \/ \E q \in BagToSet(req) : PUT_Update(q)
    \/ \E q \in BagToSet(req) : CANCEL_Update(q)
    \/ \E q \in BagToSet(req) : REVIEW_FindExisting(q)
    \/ \E q \in BagToSet(req) : REVIEW_Create(q)
    \/ \E q \in BagToSet(req) : REVIEW_FindMany(q)
    \/ \E q \in BagToSet(req) : REVIEW_UpdateService(q)
    \/ \E q \in BagToSet(req) : ADEL_Delete(q)
    \/ \E q \in BagToSet(req) : SVC_Update(q)

Next == Start \/ Continue

\* all handlers, all principals, requests overlapping freely
Spec == Init /\ [][Next]_vars

(* ---------------- concurrent booking creation -------------------------- *)
NextCreate ==
    \/ \E u \in Users, s \in ServiceIds, d \in Dates : POST_FindService(u, s, d)
    \/ \E q \in BagToSet(req) : POST_FindConflict(q)
    \/ \E q \in BagToSet(req) : POST_Create(q)

SpecCreate == Init /\ [][NextCreate]_vars

(* ------------- booking lifecycle, one request at a time ---------------- *)
InitActive == Init /\ \A s \in ServiceIds : services[s].isActive

\* customers of service s1 in the lifecycle runs: a user and a provider
LifecycleCustomers == {"c1", "p2"}

NextLifecycle ==
    \/ /\ AllIdle
       /\ \E u \in LifecycleCustomers, d \in Dates : POST_FindService(u, "s1", d)
    \/ /\ AllIdle
       /\ \E u \in Users, b \in BookingIds, st \in Statuses : PUT_Find(u, b, st)
    \/ /\ AllIdle
       /\ \E u \in Users, b \in BookingIds : CANCEL_Find(u, b)
    \/ /\ AllIdle
       /\ \E u \in Users, b \in BookingIds, up \in StatusUpdates, now \in Instants :
              PATCH(u, b, up, now)
    \/ /\ AllIdle
       /\ \E u \in Users, b \in BookingIds : ADEL_Find(u, b)
    \/ \E q \in BagToSet(req) : POST_FindConflict(q)
    \/ \E q \in BagToSet(req) : POST_Create(q)
    \/ \E q \in BagToSet(req) : PUT_Update(q)
    \/ \E q \in BagToSet(req) : CANCEL_Update(q)
    \/ \E q \in BagToSet(req) : ADEL_Delete(q)

SpecLifecycle == InitActive /\ [][NextLifecycle]_vars

(* ------------- reviews of completed bookings, overlapping -------------- *)
\* c1 made the bookings; c2 is another customer of the marketplace
ReviewCustomers == {"c1", "c2"}

\* the store after MaxBookings bookings of service s1 were made and completed
InitReview ==
    /\ services = [s \in ServiceIds |->
                      [providerId |-> Owner(s), price |-> Price(s), isActive |-> TRUE,
                       rating |-> 0, reviewCount |-> 0]]
    /\ bookings = [b \in BookingIds |->
           [NewBooking("c1", services["s1"], "s1", ((b - 1) % MaxDate) + 1)
                EXCEPT !.status = "completed"]]
    /\ reviews = <<>>
    /\ nextId = MaxBookings + 1
    /\ req = EmptyBag
    /\ last = NoLast

NextReview ==
    \/ \E u \in ReviewCustomers, b \in BookingIds, x \in RatingInputs :
           REVIEW_FindBooking(u, b, x)
    \/ \E q \in BagToSet(req) : REVIEW_FindExisting(q)
    \/ \E q \in BagToSet(req) : REVIEW_Create(q)
    \/ \E q \in BagToSet(req) : REVIEW_FindMany(q)
    \/ \E q \in BagToSet(req) : REVIEW_UpdateService(q)

SpecReview == InitReview /\ [][NextReview]_vars

(* ------- reviewed bookings and later status changes, one at a time ----- *)
NextAfterReview ==
    \/ /\ AllIdle
       /\ \E u \in ReviewCustomers, b \in BookingIds, x \in RatingInputs :
              REVIEW_FindBooking(u, b, x)
    \/ /\ AllIdle
       /\ \E u \in Users, b \in BookingIds, st \in Statuses : PUT_Find(u, b, st)
    \/ /\ AllIdle
       /\ \E u \in Users, b \in BookingIds : CANCEL_Find(u, b)
    \/ /\ AllIdle
       /\ \E u \in Users, b \in BookingIds, up \in StatusUpdates, now \in Instants :
              PATCH(u, b, up, now)
    \/ \E q \in BagToSet(req) : REVIEW_FindExisting(q)
    \/ \E q \in BagToSet(req) : REVIEW_Create(q)
    \/ \E q \in BagToSet(req) : REVIEW_FindMany(q)
    \/ \E q \in BagToSet(req) : REVIEW_UpdateService(q)
    \/ \E q \in BagToSet(req) : PUT_Update(q)
    \/ \E q \in BagToSet(req) : CANCEL_Update(q)

SpecAfterReview == InitReview /\ [][NextAfterReview]_vars

(* ---------- status updates of existing bookings, one at a time --------- *)
\* who made booking b: a user for odd ids, a provider for even ids
TransitionCustomer(b) == IF b % 2 = 1 THEN "c1" ELSE "p2"

\* the store after every booking id was taken for service s1, each booking
\* at its own timestamp and in any status
InitTransition ==
    /\ services = [s \in ServiceIds |->
                      [providerId |-> Owner(s), price |-> Price(s), isActive |-> TRUE,
                       rating |-> 0, reviewCount |-> 0]]
    /\ \E f \in [BookingIds -> Statuses] :
           bookings = [b \in BookingIds |->
               [NewBooking(TransitionCustomer(b), services["s1"], "s1", b)
                    EXCEPT !.status = f[b]]]
    /\ reviews = <<>>
    /\ nextId = MaxBookings + 1
    /\ req = EmptyBag
    /\ last = NoLast

NextTransition ==
    \/ /\ AllIdle
       /\ \E u \in Users, b \in BookingIds, st \in Statuses : PUT_Find(u, b, st)
    \/ \E q \in BagToSet(req) : PUT_Update(q)

SpecTransition == InitTransition /\ [][NextTransition]_vars

(* ------- bookings made while a provider edits the service, serially ---- *)
\* callers of CreateBooking: two customers and the owner of s1
CatalogueCallers == {"c1", "c2", "p1"}

NextCatalogue ==
    \/ /\ AllIdle
       /\ \E u \in CatalogueCallers, s \in {"s1", "s9"}, d \in Dates :
              POST_FindService(u, s, d)
    \/ /\ AllIdle
       /\ \E u \in {"p1", "p2"}, x \in PriceInputs, a \in BOOLEAN :
              SVC_Find(u, "s1", x, a)
    \/ \E q \in BagToSet(req) : POST_FindConflict(q)
    \/ \E q \in BagToSet(req) : POST_Create(q)
    \/ \E q \in BagToSet(req) : SVC_Update(q)

SpecCatalogue == InitActive /\ [][NextCatalogue]_vars

(* --------- every operation on one service, one request at a time ------- *)
\* the customer of the bookings, another customer, the provider, an admin
DeskUsers == {"c1", "c2", "p1", "a1"}

\* `updates` of the admin in these runs: a status, valid or not, or an
\* invalid payment status
DeskUpdates == StatusUpdates \cup {[status |-> "archived"], [paymentStatus |-> "chargeback"]}

\* the store when booking 1 (c1 on s1) is the only booking left of the
\* first MaxBookings - 1, either pending or completed, and one id is free
InitDesk ==
    /\ services = [s \in ServiceIds |->
                      [providerId |-> Owner(s), price |-> Price(s), isActive |-> TRUE,
                       rating |-> 0, reviewCount |-> 0]]
    /\ \E st \in {"pending", "completed"} :
           bookings = [b \in BookingIds |->
               IF b = 1
               THEN [NewBooking("c1", services["s1"], "s1", 1) EXCEPT !.status = st]
               ELSE NoBooking]
    /\ reviews = <<>>
    /\ nextId = MaxBookings
    /\ req = EmptyBag
    /\ last = NoLast

NextDesk ==
    \/ /\ AllIdle
       /\ \E u \in {"c1", "p1"}, s \in {"s1", "s9"}, d \in Dates :
              POST_FindService(u, s, d)
    \/ /\ AllIdle
       /\ \E u \in DeskUsers, b \in BookingIds, st \in Statuses : PUT_Find(u, b, st)
    \/ /\ AllIdle
       /\ \E u \in DeskUsers, b \in BookingIds : CANCEL_Find(u, b)
    \/ /\ AllIdle
       /\ \E u \in DeskUsers, b \in BookingIds, x \in {0, 40, 60} :
              REVIEW_FindBooking(u, b, x)
    \/ /\ AllIdle
       /\ \E u \in DeskUsers, b \in BookingIds, up \in DeskUpdates, now \in Instants :
              PATCH(u, b, up, now)
    \/ /\ AllIdle
       /\ \E u \in DeskUsers, b \in BookingIds : ADEL_Find(u, b)
    \/ \E q \in BagToSet(req) : POST_FindConflict(q)
    \/ \E q \in BagToSet(req) : POST_Create(q)
    \/ \E q \in BagToSet(req) : PUT_Update(q)
    \/ \E q \in BagToSet(req) : CANCEL_Update(q)
    \/ \E q \in BagToSet(req) : REVIEW_FindExisting(q)
    \/ \E q \in BagToSet(req) : REVIEW_Create(q)
    \/ \E q \in BagToSet(req) : REVIEW_FindMany(q)
    \/ \E q \in BagToSet(req) : REVIEW_UpdateService(q)
    \/ \E q \in BagToSet(req) : ADEL_Delete(q)

SpecDesk == InitDesk /\ [][NextDesk]_vars

(* ------- reviews of bookings in any status, one request at a time ------ *)
NextReviewGate ==
    \/ /\ AllIdle
       /\ \E u \in Users, b \in BookingIds, x \in RatingBodies :
              REVIEW_FindBooking(u, b, x)
    \/ \E q \in BagToSet(req) : REVIEW_FindExisting(q)
    \/ \E q \in BagToSet(req) : REVIEW_Create(q)
    \/ \E q \in BagToSet(req) : REVIEW_FindMany(q)
    \/ \E q \in BagToSet(req) : REVIEW_UpdateService(q)

SpecReviewGate == InitTransition /\ [][NextReviewGate]_vars

(* ---- an existing booking while prices and rows are edited, serially ---- *)
\* `updates` of the admin in these runs: a status, a payment status or a
\* total price
PriceUpdates == {[status |-> "confirmed"], [paymentStatus |-> "paid"], [totalPrice |-> 99]}

NextPrice ==
    \/ /\ AllIdle
       /\ \E u \in {"p1", "p2"}, x \in PriceInputs, a \in BOOLEAN :
              SVC_Find(u, "s1", x, a)
    \/ /\ AllIdle
       /\ \E u \in DeskUsers, b \in BookingIds, st \in Statuses : PUT_Find(u, b, st)
    \/ /\ AllIdle
       /\ \E u \in DeskUsers, b \in BookingIds : CANCEL_Find(u, b)
    \/ /\ AllIdle
       /\ \E u \in DeskUsers, b \in BookingIds, up \in PriceUpdates, now \in Instants :
              PATCH(u, b, up, now)
    \/ \E q \in BagToSet(req) : SVC_Update(q)
    \/ \E q \in BagToSet(req) : PUT_Update(q)
    \/ \E q \in BagToSet(req) : CANCEL_Update(q)

SpecPrice == InitDesk /\ [][NextPrice]_vars

(* ----- slots of two services booked, closed and booked again, serially -- *)
NextSlots ==
    \/ /\ AllIdle
       /\ \E s \in ServiceIds, d \in Dates : POST_FindService("c1", s, d)
    \/ /\ AllIdle
       /\ \E u \in {"p1", "p2"}, b \in BookingIds,
                st \in {"confirmed", "in_progress", "completed"} :
              PUT_Find(u, b, st)
    \/ /\ AllIdle
       /\ \E b \in BookingIds : CANCEL_Find("c1", b)
    \/ \E q \in BagToSet(req) : POST_FindConflict(q)
    \/ \E q \in BagToSet(req) : POST_Create(q)
    \/ \E q \in BagToSet(req) : PUT_Update(q)
    \/ \E q \in BagToSet(req) : CANCEL_Update(q)

SpecSlots == InitActive /\ [][NextSlots]_vars

(* ------ cancels and status updates of existing bookings, serially ------ *)
NextCancel ==
    \/ /\ AllIdle
       /\ \E u \in Users, b \in BookingIds : CANCEL_Find(u, b)
    \/ /\ AllIdle
       /\ \E u \in Users, b \in BookingIds, st \in Statuses : PUT_Find(u, b, st)
    \/ \E q \in BagToSet(req) : CANCEL_Update(q)
    \/ \E q \in BagToSet(req) : PUT_Update(q)

SpecCancel == InitTransition /\ [][NextCancel]_vars

(* --- overlapping cancels by the customer and completions by the provider --- *)
NextCancelRace ==
    \/ \E b \in BookingIds : CANCEL_Find(TransitionCustomer(b), b)
    \/ \E b \in BookingIds : PUT_Find("p1", b, "completed")
    \/ \E q \in BagToSet(req) : CANCEL_Update(q)
    \/ \E q \in BagToSet(req) : PUT_Update(q)

SpecCancelRace == InitTransition /\ [][NextCancelRace]_vars

(* ---- overlapping admin deletes and reviews of completed bookings ---- *)
NextDeleteRace ==
    \/ \E b \in BookingIds : ADEL_Find("a1", b)
    \/ \E b \in BookingIds : REVIEW_FindBooking("c1", b, 40)
    \/ \E q \in BagToSet(req) : ADEL_Delete(q)
    \/ \E q \in BagToSet(req) : REVIEW_FindExisting(q)
    \/ \E q \in BagToSet(req) : REVIEW_Create(q)
    \/ \E q \in BagToSet(req) : REVIEW_FindMany(q)
    \/ \E q \in BagToSet(req) : REVIEW_UpdateService(q)

SpecDeleteRace == InitReview /\ [][NextDeleteRace]_vars

(* ------ reviews of completed bookings when the store may fail ------- *)
NextReviewFault ==
    \/ \E u \in ReviewCustomers, b \in BookingIds, x \in RatingInputs :
           REVIEW_FindBooking(u, b, x)
    \/ \E q \in BagToSet(req) : REVIEW_FindExisting(q)
    \/ \E q \in BagToSet(req) : REVIEW_Create(q)
    \/ \E q \in BagToSet(req) : REVIEW_FindMany(q)
    \/ \E q \in BagToSet(req) : REVIEW_UpdateService(q)
    \/ \E q \in BagToSet(req) : REVIEW_RecomputeFails(q)

SpecReviewFault == InitReview /\ [][NextReviewFault]_vars

(* ---- status updates that carry values outside the enumerations ---- *)
\* a status and a payment status no enumeration has, and the empty string
OtherStatuses == {"archived", ""}
OtherPaymentStatuses == {"chargeback", ""}

DomainUpdates ==
    {[status |-> st] : st \in {"confirmed"} \cup OtherStatuses}
        \cup {[paymentStatus |-> p] : p \in {"paid"} \cup OtherPaymentStatuses}

NextStatusDomain ==
    \/ /\ AllIdle
       /\ \E u \in Users, b \in BookingIds, st \in Statuses \cup OtherStatuses :
              PUT_Find(u, b, st)
    \/ /\ AllIdle
       /\ \E u \in {"a1", "p1"}, b \in BookingIds, up \in DomainUpdates, now \in Instants :
              PATCH(u, b, up, now)
    \/ \E q \in BagToSet(req) : PUT_Update(q)

SpecStatusDomain == InitTransition /\ [][NextStatusDomain]_vars

(* ------- booking reads and reviews of bookings, one at a time -------- *)
NextDetails ==
    \/ /\ AllIdle
       /\ \E u \in Users, b \in BookingIds : DETAILS_Find(u, b)
    \/ /\ AllIdle
       /\ \E u \in Users, b \in BookingIds : REVIEW_FindBooking(u, b, 40)
    \/ \E q \in BagToSet(req) : DETAILS_FindReview(q)
    \/ \E q \in BagToSet(req) : REVIEW_FindExisting(q)
    \/ \E q \in BagToSet(req) : REVIEW_Create(q)
    \/ \E q \in BagToSet(req) : REVIEW_FindMany(q)
    \/ \E q \in BagToSet(req) : REVIEW_UpdateService(q)

SpecDetails == InitTransition /\ [][NextDetails]_vars

(* ------- booking reads between status updates, one at a time -------- *)
NextReads ==
    \/ /\ AllIdle
       /\ \E u \in Users, st \in Statuses \cup {""} : LIST(u, st)
    \/ /\ AllIdle
       /\ \E u \in Users, b \in BookingIds : DETAILS_Find(u, b)
    \/ /\ AllIdle
       /\ \E b \in BookingIds, st \in Statuses : PUT_Find("a1", b, st)
    \/ \E q \in BagToSet(req) : DETAILS_FindReview(q)
    \/ \E q \in BagToSet(req) : PUT_Update(q)

SpecReads == InitTransition /\ [][NextReads]_vars

(* ------- admin updates and deletes asked by every kind of caller ------ *)
AdminCallers == {Anonymous, "c1", "p1", "a1"}

NextAdminGate ==
    \/ /\ AllIdle
       /\ \E u \in AdminCallers, b \in BookingIds, up \in PatchInputs, now \in Instants :
              PATCH(u, b, up, now)
    \/ /\ AllIdle
       /\ \E u \in AdminCallers, b \in BookingIds : ADEL_Find(u, b)
    \/ \E q \in BagToSet(req) : ADEL_Delete(q)

SpecAdminGate == InitDesk /\ [][NextAdminGate]_vars

(* ============================== properties ============================= *)
TypeOK ==
    /\ nextId \in 1..(MaxBookings + 1)
    /\ BagCardinality(req) <= MaxReq
    /\ \A b \in BookingIds : Exists(b) => bookings[b].status \in Statuses

BookingsOfSlot(s, d) ==
    {b \in BookingIds : Exists(b) /\ bookings[b].serviceId = s /\ bookings[b].date = d}

ActiveOfSlot(s, d) ==
    {b \in BookingsOfSlot(s, d) : bookings[b].status \in ActiveStatuses}

Answered(op, u, resp) == last = [op |-> op, user |-> u, resp |-> resp]

\* C1: when only CreateBooking requests run, overlapping or not, at most one
\* of the requests for a given (serviceId, date) succeeds, i.e. at most one
\* booking (all of them pending, hence active) is ever inserted for the slot.
C1_OneCreatePerSlot ==
    \A s \in ServiceIds, d \in Dates : Cardinality(BookingsOfSlot(s, d)) <= 1

\* C2: in every state reached by CreateBooking, Transition, cancel, admin
\* update and admin delete, at most one booking with an active status
\* exists for each (serviceId, date).
C2_ActiveSlotInvariant ==
    \A s \in ServiceIds, d \in Dates : Cardinality(ActiveOfSlot(s, d)) <= 1

\* C3: once a booking is completed or cancelled its status never changes
\* again, whoever asks and whatever the target.
C3_TerminalImmutable ==
    [][\A b \in BookingIds :
           (Exists(b) /\ bookings[b].status \in TerminalStatuses /\ bookings'[b] # NoBooking)
               => bookings'[b].status = bookings[b].status]_vars

\* the permitted-target table of the specification, by account role
C4_Table(role) ==
    CASE role = "user" -> {"cancelled"}
      [] role = "provider" -> {"confirmed", "in_progress", "completed", "cancelled"}
      [] role = "admin" -> Statuses

\* the actor has the relationship to the booking that its role names
C4_Related(u, booking) ==
    \/ Role(u) = "user" /\ booking.userId = u
    \/ Role(u) = "provider" /\ booking.providerId = u
    \/ Role(u) = "admin"

C5_RatingConsistentAtRest ==
    AllIdle =>
        \A s \in ServiceIds :
            LET I == ReviewsOfService(s)
            IN I # {} => /\ services[s].reviewCount = Cardinality(I)
                         /\ services[s].rating =
                                RoundedMean10(SumRatings(I), Cardinality(I))

\* C6: a SubmitReview that reaches its existence check or its insert when
\* the booking already has a review is answered with the duplicate-review
\* rejection, never with another error.
C6_DuplicateIsConflict ==
    [][\A q \in BagToSet(req) :
           (/\ q.op = "REVIEW"
            /\ ReviewsOfBooking(q.arg.id) # {}
            /\ REVIEW_FindExisting(q) \/ REVIEW_Create(q))
               => last' = [op |-> "REVIEW", user |-> q.user, resp |-> ReviewExists]]_vars

\* C7: at most one review references any booking id.
C7_OneReviewPerBooking ==
    \A b \in BookingIds : Cardinality(ReviewsOfBooking(b)) <= 1

\* two submissions for one booking raced past the existence check: one
\* review is stored and the insert of the other was refused
C7_Witness ==
    /\ Answered("REVIEW", "c1", InternalError)
    /\ \E b \in BookingIds : Cardinality(ReviewsOfBooking(b)) = 1

\* C8: every review is linked to an existing booking whose status is
\* completed, also after later status changes of the booking.
C8_ReviewedIsCompleted ==
    \A i \in 1..Len(reviews) :
        /\ Exists(reviews[i].bookingId)
        /\ bookings[reviews[i].bookingId].status = "completed"

\* C9 as stated: CreateBooking by the owner of the service is always
\* answered InvalidOperation and inserts nothing.
C9_OwnerAlwaysInvalidOperation ==
    [][\A u \in Users, s \in ServiceIds, d \in Dates :
           (services[s].providerId = u /\ POST_FindService(u, s, d))
               => /\ last' = [op |-> "POST", user |-> u, resp |-> OwnService]
                  /\ UNCHANGED <<services, bookings, reviews, nextId, req>>]_vars

\* C9 amended: CreateBooking on an active service by its owner is answered
\* InvalidOperation and inserts nothing, whether the slot is free or taken,
\* and every booking that is inserted has userId # providerId.
C9_NoSelfBooking ==
    [][/\ \A u \in Users, s \in ServiceIds, d \in Dates :
              (services[s].isActive /\ services[s].providerId = u
                   /\ POST_FindService(u, s, d))
                  => /\ last' = [op |-> "POST", user |-> u, resp |-> OwnService]
                     /\ UNCHANGED <<services, bookings, reviews, nextId, req>>
       /\ \A b \in BookingIds :
              (~Exists(b) /\ bookings'[b] # NoBooking)
                  => bookings'[b].userId # bookings'[b].providerId]_vars

\* the owner p1 of s1 was refused while every timestamp of s1 is taken by
\* a pending booking
C9_Witness ==
    /\ Answered("POST", "p1", OwnService)
    /\ \A d \in Dates : ActiveOfSlot("s1", d) # {}

\* C10: a Transition by a principal who is neither the booking's customer
\* nor its provider nor an admin is answered Forbidden and changes nothing,
\* whatever the target status.
C10_StrangerForbidden ==
    [][\A u \in Users, b \in BookingIds, st \in Statuses :
           (/\ Exists(b)
            /\ bookings[b].userId # u
            /\ bookings[b].providerId # u
            /\ Role(u) # "admin"
            /\ PUT_Find(u, b, st))
               => /\ last' = [op |-> "PUT", user |-> u, resp |-> Forbidden]
                  /\ UNCHANGED <<services, bookings, reviews, nextId, req>>]_vars

\* c2, who made no booking and owns no service, was answered Forbidden
C10_Witness ==
    /\ Answered("PUT", "c2", Forbidden)
    /\ \E b \in BookingIds : Exists(b)

\* C11: a successful CreateBooking answers 201 and inserts exactly one
\* booking, with status pending, paymentStatus pending, totalPrice the
\* service's current price, userId the caller and providerId the service's
\* provider; every other booking, the reviews and the services stay as
\* they are.
C11_CreateInsertsOne ==
    [][\A q \in Suspended("POST", "create") :
           POST_Create(q) =>
               /\ last' = [op |-> "POST", user |-> q.user, resp |-> Created]
               /\ \E b \in BookingIds :
                      /\ ~Exists(b)
                      /\ bookings'[b].status = "pending"
                      /\ bookings'[b].paymentStatus = "pending"
                      /\ bookings'[b].totalPrice = services[q.arg.serviceId].price
                      /\ bookings'[b].userId = q.user
                      /\ bookings'[b].providerId = services[q.arg.serviceId].providerId
                      /\ bookings'[b].serviceId = q.arg.serviceId
                      /\ bookings'[b].date = q.arg.date
                      /\ \A c \in BookingIds \ {b} : bookings'[c] = bookings[c]
               /\ UNCHANGED <<services, reviews>>]_vars

\* c2 booked s1 at the new price 30 after c1 had booked it at 50
C11_Witness ==
    /\ Answered("POST", "c2", Created)
    /\ \E b, c \in BookingIds :
           /\ Exists(b) /\ bookings[b].userId = "c1" /\ bookings[b].totalPrice = 50
           /\ Exists(c) /\ bookings[c].userId = "c2" /\ bookings[c].totalPrice = 30
                        /\ bookings[c].status = "pending"

\* C12: CreateBooking checks in a fixed order.  A missing or inactive
\* service is answered NotFound, also for the owner and for a taken slot;
\* otherwise the owner is answered InvalidOperation, also for a taken slot;
\* only a request that passed both is answered Conflict for a taken slot.
C12_CheckOrder ==
    [][/\ \A u \in Users, s \in ServiceInputs, d \in Dates :
              POST_FindService(u, s, d) =>
                  IF s \notin ServiceIds \/ ~services[s].isActive
                  THEN /\ last' = [op |-> "POST", user |-> u, resp |-> ServiceNotFound]
                       /\ UNCHANGED <<services, bookings, reviews, nextId, req>>
                  ELSE IF services[s].providerId = u
                  THEN /\ last' = [op |-> "POST", user |-> u, resp |-> OwnService]
                       /\ UNCHANGED <<services, bookings, reviews, nextId, req>>
                  ELSE /\ last' = last
                       /\ BagCardinality(req') = BagCardinality(req) + 1
       /\ \A q \in Suspended("POST", "findConflict") :
              POST_FindConflict(q) =>
                  IF ActiveOfSlot(q.arg.serviceId, q.arg.date) # {}
                  THEN /\ last' = [op |-> "POST", user |-> q.user,
                                   resp |-> SlotUnavailable]
                       /\ q.user # q.loc.service.providerId
                       /\ q.loc.service.isActive
                       /\ UNCHANGED <<services, bookings, reviews, nextId>>
                  ELSE last' = last]_vars

\* the owner p1 of s1 was answered NotFound while s1 is inactive and every
\* timestamp of s1 is taken
C12_Witness ==
    /\ Answered("POST", "p1", ServiceNotFound)
    /\ ~services["s1"].isActive
    /\ \A d \in Dates : ActiveOfSlot("s1", d) # {}

\* C13: a rejected CreateBooking, Transition, cancel, admin update, admin
\* delete or SubmitReview leaves every booking (updatedAt included), every
\* review and every service as before the call: the step that answers with
\* an error writes nothing, a handler that has not answered yet has written
\* nothing but the review it inserts, and after that insert it is never
\* answered with an error.
C13_RejectedChangesNothing ==
    [][LET Responds == req' = req \/ BagCardinality(req') < BagCardinality(req)
       IN /\ (Responds /\ last'.resp.code >= 400)
                 => UNCHANGED <<services, bookings, reviews, nextId>>
          /\ ~Responds
                 => /\ UNCHANGED <<services, bookings>>
                    /\ reviews' # reviews
                           => \E q \in Suspended("REVIEW", "create") : REVIEW_Create(q)
          /\ \A q \in Suspended("REVIEW", "findMany")
                       \cup Suspended("REVIEW", "updateService") :
                 ((REVIEW_FindMany(q) \/ REVIEW_UpdateService(q)) /\ Responds)
                     => last'.resp.code < 400]_vars

\* a second SubmitReview of c1 was rejected; the first review, the rating
\* it produced and the admin's earlier update of booking 1 are in place
C13_Witness ==
    /\ Answered("REVIEW", "c1", ReviewExists)
    /\ Len(reviews) = 1
    /\ services["s1"].reviewCount = 1
    /\ bookings[1].updatedAt = 1

\* C14: a cancellation of a booking that is already completed or cancelled
\* is answered InvalidOperation and changes nothing, through the cancel
\* operation and through a Transition with target cancelled by the
\* booking's customer, its provider or an admin.
C14_NoCancelOfTerminal ==
    [][\A u \in Users, b \in BookingIds :
           (Exists(b) /\ bookings[b].status \in TerminalStatuses)
               => /\ CANCEL_Find(u, b)
                         => /\ last' = [op |-> "CANCEL", user |-> u, resp |-> CannotCancel]
                            /\ UNCHANGED <<services, bookings, reviews, nextId, req>>
                  /\ (/\ \/ bookings[b].userId = u
                         \/ bookings[b].providerId = u
                         \/ Role(u) = "admin"
                      /\ PUT_Find(u, b, "cancelled"))
                         => /\ last'.op = "PUT" /\ last'.user = u
                            /\ last'.resp.code = 400
                            /\ UNCHANGED <<services, bookings, reviews, nextId, req>>]_vars

\* C15: a booking row leaves the store only in the hard delete of an admin,
\* and only when no review is linked to it; the hard delete of a booking
\* with a linked review is answered InvalidOperation and keeps the booking
\* and the review; a cancel keeps the row and sets its status to cancelled.
C15_OnlyAdminHardDelete ==
    [][/\ \A b \in BookingIds :
              (Exists(b) /\ bookings'[b] = NoBooking)
                  => /\ ReviewsOfBooking(b) = {}
                     /\ \E q \in Suspended("ADEL", "delete") :
                            /\ q.arg.id = b
                            /\ Role(q.user) = "admin"
                            /\ ADEL_Delete(q)
       /\ \A u \in Users, b \in BookingIds :
              (Exists(b) /\ ReviewsOfBooking(b) # {} /\ Role(u) = "admin"
                   /\ ADEL_Find(u, b))
                  => /\ last' = [op |-> "ADEL", user |-> u, resp |-> HasReview]
                     /\ UNCHANGED <<services, bookings, reviews, nextId, req>>
       /\ \A q \in Suspended("CANCEL", "update") :
              (Exists(q.arg.id) /\ CANCEL_Update(q))
                  => bookings' = [bookings EXCEPT ![q.arg.id].status = "cancelled"]]_vars

\* the admin was refused the hard delete of reviewed booking 1 after the
\* booking made later had been hard-deleted
C15_Witness ==
    /\ Answered("ADEL", "a1", HasReview)
    /\ Exists(1) /\ ReviewsOfBooking(1) # {}
    /\ nextId = MaxBookings + 1 /\ ~Exists(MaxBookings)

\* C16: SubmitReview inserts a review only for an existing booking whose
\* userId is the caller and whose status is completed.  A caller who is not
\* the booking's customer is answered Forbidden and the customer of a
\* booking that is not completed is answered InvalidOperation, both with no
\* review inserted and every service's rating and reviewCount unchanged.
C16_ReviewPreconditions ==
    [][/\ Len(reviews') > Len(reviews)
              => \E q \in Suspended("REVIEW", "create") :
                     /\ REVIEW_Create(q)
                     /\ Exists(q.arg.id)
                     /\ bookings[q.arg.id].userId = q.user
                     /\ bookings[q.arg.id].status = "completed"
                     /\ reviews'[Len(reviews')].bookingId = q.arg.id
                     /\ reviews'[Len(reviews')].userId = q.user
       /\ \A u \in Users, b \in BookingIds, x \in RatingInputs :
              (Exists(b) /\ bookings[b].userId # u /\ REVIEW_FindBooking(u, b, x))
                  => /\ last' = [op |-> "REVIEW", user |-> u, resp |-> Forbidden]
                     /\ UNCHANGED <<services, bookings, reviews, nextId, req>>
       /\ \A u \in Users, b \in BookingIds, x \in RatingInputs :
              (Exists(b) /\ bookings[b].userId = u /\ bookings[b].status # "completed"
                   /\ REVIEW_FindBooking(u, b, x))
                  => /\ last' = [op |-> "REVIEW", user |-> u, resp |-> NotCompleted]
                     /\ UNCHANGED <<services, bookings, reviews, nextId, req>>]_vars

\* c1 was refused the review of booking 1, which is not completed, after
\* the customer of booking 2 had reviewed that booking
C16_Witness ==
    /\ Answered("REVIEW", "c1", NotCompleted)
    /\ bookings[1].userId = "c1" /\ bookings[1].status # "completed"
    /\ ReviewsOfBooking(1) = {} /\ ReviewsOfBooking(2) # {}
    /\ services["s1"].reviewCount = 1

\* C17: after non-overlapping SubmitReview calls, every service with
\* reviews has reviewCount equal to the number of its reviews and rating
\* equal to the mean of all their ratings rounded to one decimal (in
\* tenths; a tie rounds up); a single review with rating 4
\* gives rating 4.0 and reviewCount 1.
C17_SerialRatingIsRoundedMean ==
    AllIdle =>
        \A s \in ServiceIds :
            LET I == ReviewsOfService(s)
                n == Cardinality(I)
                sum == SumRatings(I)
                r == services[s].rating
            IN n > 0 => /\ services[s].reviewCount = n
                        /\ 2 * (n * r - sum) <= n
                        /\ 2 * (sum - n * r) < n
                        /\ (n = 1 /\ sum = 40) => r = 40

\* two reviews of s1, rated 4 and 5, are stored and s1 carries 4.5 and 2
C17_Witness ==
    /\ AllIdle
    /\ Len(reviews) = 2
    /\ {reviews[1].rating, reviews[2].rating} = {40, 50}
    /\ services["s1"].rating = 45
    /\ services["s1"].reviewCount = 2

\* C18: in every reachable state, also between the review insert and the
\* service update of a SubmitReview, each service's reviewCount and rating
\* are the count and the rounded mean of the reviews linked to it.
C18_RatingAlwaysConsistent ==
    \A s \in ServiceIds :
        LET I == ReviewsOfService(s)
            n == Cardinality(I)
        IN /\ services[s].reviewCount = n
           /\ n > 0 => services[s].rating = RoundedMean10(SumRatings(I), n)

\* C19: the totalPrice of a booking never changes after its creation:
\* not when the service's price is changed, not in a Transition or a
\* cancel, not in any other operation on the booking.
C19_TotalPriceFixed ==
    [][\A b \in BookingIds :
           (Exists(b) /\ bookings'[b] # NoBooking)
               => bookings'[b].totalPrice = bookings[b].totalPrice]_vars

\* C20: for a booking in any non-terminal status, a Transition by its
\* provider to confirmed, in_progress, completed or cancelled is accepted
\* whatever the current status, skipping states or moving backwards
\* included: the request is not rejected and its update sets the status to
\* the target and answers 200.
C20_NoAdjacencyCheck ==
    [][/\ \A b \in BookingIds,
             st \in {"confirmed", "in_progress", "completed", "cancelled"} :
              (/\ Exists(b)
               /\ bookings[b].status \in ActiveStatuses
               /\ PUT_Find(bookings[b].providerId, b, st))
                  => /\ req' = req (+) SetToBag({[op |-> "PUT", pc |-> "update",
                                 user |-> bookings[b].providerId,
                                 arg |-> [id |-> b, status |-> st], loc |-> NoLoc]})
                     /\ last' = last
       /\ \A q \in Suspended("PUT", "update") :
              (/\ Exists(q.arg.id)
               /\ q.user = bookings[q.arg.id].providerId
               /\ bookings[q.arg.id].status \in ActiveStatuses
               /\ PUT_Update(q))
                  => /\ bookings'[q.arg.id].status = q.arg.status
                     /\ last' = [op |-> "PUT", user |-> q.user, resp |-> Ok]]_vars

\* the provider p1 was answered 200 and its bookings are confirmed and
\* completed
C20_Witness ==
    /\ Answered("PUT", "p1", Ok)
    /\ bookings[1].status = "confirmed"
    /\ bookings[2].status = "completed"

\* C21: SubmitReview with a rating that is no integer in [1,5] (zero,
\* negative, greater than 5, fractional) is answered ValidationError, and
\* nothing is written: no review, no change of any service.
C21_InvalidRatingIsValidationError ==
    [][\A u \in Users, b \in BookingIds, x \in InvalidRatings :
           REVIEW_FindBooking(u, b, x)
               => /\ last'.op = "REVIEW" /\ last'.user = u
                  /\ last'.resp \in {RatingRequired, RatingOutOfRange}
                  /\ UNCHANGED <<services, bookings, reviews, nextId, req>>]_vars

\* C22: a CreateBooking on an active service by a caller who is not its
\* owner passes the service checks, and its conflict check answers
\* slot-unavailable exactly when a booking with the same serviceId, the
\* same date and a status of pending, confirmed or in_progress exists;
\* otherwise (bookings completed, cancelled, at another date or of another
\* service only) the request goes on to the insert and is answered 201.
C22_ConflictIffActiveSameSlot ==
    [][/\ \A u \in Users, s \in ServiceIds, d \in Dates :
              (services[s].isActive /\ services[s].providerId # u
                   /\ POST_FindService(u, s, d))
                  => /\ last' = last
                     /\ BagCardinality(req') = BagCardinality(req) + 1
       /\ \A q \in Suspended("POST", "findConflict") :
              POST_FindConflict(q) =>
                  IF \E b \in BookingIds :
                         /\ bookings[b] # NoBooking
                         /\ bookings[b].serviceId = q.arg.serviceId
                         /\ bookings[b].date = q.arg.date
                         /\ bookings[b].status \in {"pending", "confirmed", "in_progress"}
                  THEN /\ last' = [op |-> "POST", user |-> q.user, resp |-> SlotUnavailable]
                       /\ UNCHANGED bookings
                  ELSE /\ last' = last
                       /\ \E r \in BagToSet(req') : r.op = "POST" /\ r.pc = "create"
       /\ \A q \in Suspended("POST", "create") :
              POST_Create(q)
                  => last' = [op |-> "POST", user |-> q.user, resp |-> Created]]_vars

\* c1 booked a slot again after the first booking of that slot was
\* cancelled or completed
C22_Witness ==
    /\ Answered("POST", "c1", Created)
    /\ bookings[1] # NoBooking /\ bookings[2] # NoBooking
    /\ bookings[1].serviceId = bookings[2].serviceId
    /\ bookings[1].date = bookings[2].date
    /\ bookings[1].status \in TerminalStatuses
    /\ bookings[2].status = "pending"

\* C23: cancelled is reachable from every non-terminal status.  In every
\* reachable state in which the server takes a request, for every booking
\* that is pending, confirmed or in_progress the cancel request of its
\* customer is enabled and accepted, and the update it leads to sets the
\* booking's status to cancelled and answers 200.
C23_CancelReachable ==
    /\ [](\A b \in BookingIds :
              (Exists(b) /\ bookings[b].status \in ActiveStatuses /\ CanStart)
                  => ENABLED (/\ CANCEL_Find(bookings[b].userId, b)
                              /\ \E q \in BagToSet(req') :
                                     /\ q.op = "CANCEL" /\ q.pc = "update"
                                     /\ q.arg.id = b))
    /\ [][\A q \in Suspended("CANCEL", "update") :
              (Exists(q.arg.id) /\ CANCEL_Update(q))
                  => /\ bookings'[q.arg.id].status = "cancelled"
                     /\ last' = [op |-> "CANCEL", user |-> q.user, resp |-> Ok]]_vars

\* the cancel of p2, the customer of booking 2, was applied
C23_Witness ==
    /\ Answered("CANCEL", "p2", Ok)
    /\ bookings[2].userId = "p2"
    /\ bookings[2].status = "cancelled"
    /\ bookings[1].status \in ActiveStatuses

\* C24: apart from the hard delete, no operation changes a field of an
\* existing booking other than status and updatedAt: userId, providerId,
\* serviceId, date, totalPrice and paymentStatus stay as created.
C24_OnlyStatusMutates ==
    [][\A b \in BookingIds :
           (Exists(b) /\ bookings'[b] # NoBooking)
               => \A f \in {"userId", "providerId", "serviceId", "date",
                            "totalPrice", "paymentStatus"} :
                      bookings'[b][f] = bookings[b][f]]_vars

\* C25: an operation that names a booking id no row has (Transition, cancel,
\* admin update, admin delete, SubmitReview, by a caller allowed to use the
\* route and with a well-formed body) is answered NotFound and changes
\* nothing.
C25_MissingBookingIsNotFound ==
    [][\A b \in BookingIds :
           ~Exists(b)
               => LET NotFoundTo(op, u) ==
                          /\ last' = [op |-> op, user |-> u, resp |-> BookingNotFound]
                          /\ UNCHANGED <<services, bookings, reviews, nextId, req>>
                  IN /\ \A u \in DeskUsers, st \in Statuses :
                            PUT_Find(u, b, st) => NotFoundTo("PUT", u)
                     /\ \A u \in DeskUsers : CANCEL_Find(u, b) => NotFoundTo("CANCEL", u)
                     /\ \A u \in DeskUsers :
                            REVIEW_FindBooking(u, b, 40) => NotFoundTo("REVIEW", u)
                     /\ ADEL_Find("a1", b) => NotFoundTo("ADEL", "a1")
                     /\ \A up \in StatusUpdates, now \in Instants :
                            PATCH("a1", b, up, now) => NotFoundTo("PATCH", "a1")]_vars

\* C29: a Transition to cancelled of a pending, confirmed or in_progress
\* booking, asked by the principal whose id is the booking's userId, is
\* accepted and writes cancelled, whether that principal's role is user or
\* provider.
C29_CustomerTransitionsToCancelled ==
    [][/\ \A b \in BookingIds :
              (Exists(b) /\ bookings[b].status \in ActiveStatuses
                         /\ PUT_Find(bookings[b].userId, b, "cancelled"))
                  => /\ UNCHANGED last
                     /\ \E q \in BagToSet(req') :
                            /\ q.op = "PUT" /\ q.pc = "update"
                            /\ q.user = bookings[b].userId
                            /\ q.arg = [id |-> b, status |-> "cancelled"]
       /\ \A q \in Suspended("PUT", "update") :
              (/\ Exists(q.arg.id) /\ q.arg.status = "cancelled"
               /\ q.user = bookings[q.arg.id].userId
               /\ PUT_Update(q))
                  => /\ bookings'[q.arg.id].status = "cancelled"
                     /\ last' = [op |-> "PUT", user |-> q.user, resp |-> Ok]]_vars

\* C30: a cancel asked by a principal who is neither the booking's customer,
\* nor its provider, nor an admin is answered Forbidden whatever the
\* booking's status, so the answer tells that principal nothing about the
\* booking being terminal or not.
C30_StrangerCancelIsForbidden ==
    [][\A u \in Users, b \in BookingIds :
           (Exists(b) /\ CancelUnauthorized(u, bookings[b]) /\ CANCEL_Find(u, b))
               => /\ last' = [op |-> "CANCEL", user |-> u, resp |-> Forbidden]
                  /\ UNCHANGED <<services, bookings, reviews, nextId, req>>]_vars

\* C26: when cancels by the customer overlap with the provider's Transition
\* to completed, no step turns a booking that is completed into a cancelled
\* one.
C26_CompletedNeverCancelled ==
    [][\A b \in BookingIds :
           (Exists(b) /\ bookings[b].status = "completed" /\ bookings'[b] # NoBooking)
               => bookings'[b].status # "cancelled"]_vars

C28_ReviewAllOrNothing ==
    [][\A q \in BagToSet(req) :
           (/\ q.op = "REVIEW"
            /\ q.pc \in {"findMany", "updateService"}
            /\ req' = req (-) SetToBag({q})
            /\ last'.op = "REVIEW" /\ last'.user = q.user
            /\ last'.resp.code >= 400)
               => \A i \in 1..Len(reviews') : reviews'[i].bookingId # q.arg.id]_vars

\* C31: in every reachable state each service's rating lies in [0, 5] (0 to
\* 50 tenths) and its reviewCount is a natural number, and no step makes a
\* service's reviewCount smaller.
C31_RatingBoundedCountMonotone ==
    /\ [](\A s \in ServiceIds :
              /\ services[s].rating \in 0..50
              /\ services[s].reviewCount \in Nat)
    /\ [][\A s \in ServiceIds :
              services'[s].reviewCount >= services[s].reviewCount]_vars

\* C32: in every reachable state every booking's status and paymentStatus
\* are values of their enumerations, and a Transition or an admin update
\* that carries another status or paymentStatus is answered with an error
\* and changes nothing.
C32_StatusDomain ==
    /\ [](\A b \in BookingIds :
              Exists(b) => /\ bookings[b].status \in Statuses
                           /\ bookings[b].paymentStatus \in PaymentStatuses)
    /\ [][\A u \in Users, b \in BookingIds :
              LET Rejected(op) ==
                      /\ last'.op = op /\ last'.user = u
                      /\ last'.resp.code >= 400
                      /\ UNCHANGED <<services, bookings, reviews, nextId, req>>
              IN /\ \A st \in OtherStatuses :
                        PUT_Find(u, b, st) => Rejected("PUT")
                 /\ \A up \in DomainUpdates, now \in Instants :
                        (EnumRefused(up) /\ PATCH(u, b, up, now)) => Rejected("PATCH")]_vars

\* C33: when the booking details just read by a principal say canReview,
\* a SubmitReview by that principal for that booking with a valid rating,
\* made next, passes every check and is answered Created.
C33_CanReviewMeansReviewSucceeds ==
    [][\A u \in Users, b \in BookingIds :
           (/\ last.op = "DETAILS" /\ last.user = u
            /\ last.resp.code = 200
            /\ last.resp.id = b /\ last.resp.canReview)
               => /\ REVIEW_FindBooking(u, b, 40) => UNCHANGED last
                  /\ \A q \in BagToSet(req) :
                         (/\ q.op = "REVIEW" /\ q.user = u /\ q.arg.id = b
                          /\ last' # last)
                             => last' = [op |-> "REVIEW", user |-> u, resp |-> Created]]_vars

\* C34: the list answers a user-role principal with bookings whose userId
\* is theirs only and a provider-role principal with bookings whose
\* providerId is theirs only; the details of a booking are answered to its
\* customer, its provider and an admin, and everyone else is answered
\* Forbidden.
C34_ReadsScopedToParties ==
    [][/\ \A u \in Users, st \in Statuses \cup {""} :
              LIST(u, st)
                  => /\ last'.op = "LIST" /\ last'.user = u
                     /\ \A b \in last'.resp.ids :
                            /\ Exists(b)
                            /\ Role(u) = "user" => bookings[b].userId = u
                            /\ Role(u) = "provider" => bookings[b].providerId = u
       /\ \A u \in Users, b \in BookingIds :
              (Exists(b) /\ DETAILS_Find(u, b))
                  => IF \/ bookings[b].userId = u
                        \/ bookings[b].providerId = u
                        \/ Role(u) = "admin"
                     THEN UNCHANGED last
                     ELSE /\ last' = [op |-> "DETAILS", user |-> u, resp |-> Forbidden]
                          /\ UNCHANGED req
       /\ \A q \in Suspended("DETAILS", "findReview") :
              DETAILS_FindReview(q)
                  => /\ last'.resp.code = 200
                     /\ last'.resp.id = q.arg.id
                     /\ \/ bookings[q.arg.id].userId = q.user
                        \/ bookings[q.arg.id].providerId = q.user
                        \/ Role(q.user) = "admin"]_vars

\* c1 listed the bookings and was shown booking 1, not booking 2 of p2
C34_Witness ==
    /\ last.op = "LIST" /\ last.user = "c1"
    /\ 1 \in last.resp.ids
    /\ 2 \notin last.resp.ids
    /\ Exists(2) /\ bookings[2].userId = "p2"

\* C35: an admin update or an admin delete asked by a caller who is not an
\* admin (no valid token, role user, role provider) is answered
\* Unauthorized whatever the booking id and the updates it names, and
\* changes nothing; every step that changes a booking runs for an admin.
C35_AdminOnly ==
    [][/\ \A u \in AdminCallers, b \in BookingIds :
              Role(u) # "admin"
                  => LET Refused(op) ==
                             /\ last' = [op |-> op, user |-> u, resp |-> AdminOnly]
                             /\ UNCHANGED <<services, bookings, reviews, nextId, req>>
                     IN /\ \A up \in PatchInputs, now \in Instants :
                               PATCH(u, b, up, now) => Refused("PATCH")
                        /\ ADEL_Find(u, b) => Refused("ADEL")
       /\ bookings' # bookings => Role(last'.user) = "admin"]_vars

\* the provider of booking 1 asked for its delete and was refused; the
\* booking is there, updated earlier by the admin
C35_Witness ==
    /\ Answered("ADEL", "p1", AdminOnly)
    /\ Exists(1) /\ bookings[1].providerId = "p1"
    /\ bookings[1].updatedAt = 1

====
